---- MODULE Spec2Model ----
(***************************************************************************)
(* A model of the ski-resort finder dashboard (snowboard_dashboard.py):    *)
(* its resort discovery, booking-link generation, sentiment scoring and    *)
(* weather lookup functions, and the search run that chains them.          *)
(*                                                                         *)
(* Conventions.  A text is a tuple of one-character strings, so that       *)
(* lower(), replace() and the substring test "k in s" are computed.        *)
(* Latitudes and longitudes are integers in units of 1/10000 degree (the   *)
(* precision of the fallback table).  Distances and radii are integers in  *)
(* hundredths of a mile; a recorded distance, round(d, 1), is an integer   *)
(* in tenths of a mile.                                                    *)
(***************************************************************************)
EXTENDS Integers, Sequences, FiniteSets, TLC

VARIABLES
    call,           \* a function called alone: the function and its arguments
    ret,            \* its result, NoRet until it has returned
    pc,             \* where the script run is: idle, geocode, find, enrich, render
    runs,           \* the script runs started so far
    widgets,        \* the sidebar's values in this run
    sia,            \* whether the VADER analyzer could be built
    session_state,  \* st.session_state
    geo_cache,      \* st.cache_data of get_location_coordinates, by location_name
    osm_cache,      \* st.cache_data of find_ski_resorts_osm, by (lat, lon, radius_miles)
    sentiment_cache, \* st.cache_data of get_reddit_sentiment, by resort_name
    location,       \* this run's (lat, lon, address)
    resorts,        \* this run's resort list
    idx,            \* the enrichment loop's index: resorts handled so far
    resort_data,    \* the rows built so far in this run
    ui,             \* the messages this run has put on the page
    calls,          \* the pipeline functions this run has called, in order
    weather_seen,   \* history: per (lat, lon), what its first weather lookup returned
    weather_call,   \* history: the latest weather lookup
    osm_upstream    \* history: per key of osm_cache, what the Overpass server did
                    \* when the cached list was computed

fnvars == <<call, ret>>

appvars == <<pc, runs, widgets, sia, session_state, geo_cache, osm_cache, sentiment_cache,
             location, resorts, idx, resort_data, ui, calls, weather_seen, weather_call,
             osm_upstream>>

vars == <<call, ret, pc, runs, widgets, sia, session_state, geo_cache, osm_cache,
          sentiment_cache, location, resorts, idx, resort_data, ui, calls, weather_seen,
          weather_call, osm_upstream>>

NoRet == [fn |-> "none"]

\* ------------------------------------------------------------------ text

UpperAlpha == <<"A","B","C","D","E","F","G","H","I","J","K","L","M",
                "N","O","P","Q","R","S","T","U","V","W","X","Y","Z">>

LowerAlpha == <<"a","b","c","d","e","f","g","h","i","j","k","l","m",
                "n","o","p","q","r","s","t","u","v","w","x","y","z">>

\* str.lower() on one character
LowerChar(c) ==
    IF \E i \in 1..26 : UpperAlpha[i] = c
    THEN LowerAlpha[CHOOSE i \in 1..26 : UpperAlpha[i] = c]
    ELSE c

\* str.lower()
Lower(s) == [i \in 1..Len(s) |-> LowerChar(s[i])]

\* str.replace(old, new) for a one-character old; new is a text (possibly empty)
RECURSIVE Replace(_, _, _)
Replace(s, old, new) ==
    IF s = <<>> THEN <<>>
    ELSE (IF Head(s) = old THEN new ELSE <<Head(s)>>) \o Replace(Tail(s), old, new)

\* the substring test "k in s"
In(k, s) == \E i \in 0..(Len(s) - Len(k)) : SubSeq(s, i + 1, i + Len(k)) = k

\* str.rstrip('/')
RECURSIVE RStripSlash(_)
RStripSlash(s) ==
    IF s # <<>> /\ s[Len(s)] = "/" THEN RStripSlash(SubSeq(s, 1, Len(s) - 1)) ELSE s

\* dict.get(key, default)
Get(d, key, default) == IF key \in DOMAIN d THEN d[key] ELSE default

Abs(x) == IF x < 0 THEN -x ELSE x

\* -------------------------------------------------------- resort discovery

\* geopy's geodesic((lat1, lon1), (lat2, lon2)).miles, in hundredths of a mile.
\* The library's ellipsoidal distance is replaced by a local metric around
\* latitude 39: 0.0069 mile per unit of latitude, 0.0054 per unit of longitude.
Geodesic(lat1, lon1, lat2, lon2) ==
    (69 * Abs(lat1 - lat2) + 54 * Abs(lon1 - lon2)) \div 100

\* round(distance, 1): hundredths of a mile to tenths, ties to the even tenth
Round1(d) ==
    LET q == d \div 10
        r == d % 10
    IN IF r < 5 THEN q
       ELSE IF r > 5 THEN q + 1
       ELSE IF q % 2 = 0 THEN q ELSE q + 1

exclude_keywords ==
    << <<"t","r","a","i","l">>, <<"r","o","a","d">>, <<"l","o","o","p">>, <<"p","a","t","h">>, <<"r","o","u","t","e">>, <<"f","i","r","e"," ","r","o","a","d">>, <<"b","i","k","e">>, <<"h","i","k","e">>,
       <<"p","a","r","k","i","n","g">>, <<"l","o","d","g","e"," ","p","a","r","k","i","n","g">>, <<"b","a","s","e">>, <<"t","r","a","i","l","h","e","a","d">>, <<"c","a","m","p","g","r","o","u","n","d">>, <<"p","i","c","n","i","c">>,
       <<"r","e","s","t","r","o","o","m">>, <<"s","t","o","r","e">>, <<"r","e","n","t","a","l"," ","s","h","o","p">>, <<"s","c","h","o","o","l"," ","b","u","i","l","d","i","n","g">>, <<"c","a","f","e","t","e","r","i","a">> >>

\* a list returned in the order it was built
Unsorted(found) == found

\* sorted(resorts, key=lambda x: x["distance"]): a stable insertion sort
RECURSIVE InsertByDistance(_, _)
InsertByDistance(r, sorted) ==
    IF sorted = <<>> THEN <<r>>
    ELSE IF r.distance < Head(sorted).distance THEN <<r>> \o sorted
    ELSE <<Head(sorted)>> \o InsertByDistance(r, Tail(sorted))

RECURSIVE SortByDistance(_)
SortByDistance(found) ==
    IF found = <<>> THEN <<>>
    ELSE InsertByDistance(found[Len(found)],
                          SortByDistance(SubSeq(found, 1, Len(found) - 1)))

known_resorts ==
    << [name |-> <<"P","a","l","i","s","a","d","e","s"," ","T","a","h","o","e">>, lat |-> 391970, lon |-> -1202356, website |-> <<"https://www.palisadestahoe.com">>],
       [name |-> <<"H","e","a","v","e","n","l","y">>, lat |-> 389352, lon |-> -1199393, website |-> <<"https://www.skiheavenly.com">>],
       [name |-> <<"N","o","r","t","h","s","t","a","r"," ","C","a","l","i","f","o","r","n","i","a">>, lat |-> 392734, lon |-> -1201217, website |-> <<"https://www.northstarcalifornia.com">>],
       [name |-> <<"K","i","r","k","w","o","o","d">>, lat |-> 386836, lon |-> -1200647, website |-> <<"https://www.kirkwood.com">>],
       [name |-> <<"S","i","e","r","r","a","-","a","t","-","T","a","h","o","e">>, lat |-> 387993, lon |-> -1200803, website |-> <<"https://www.sierraattahoe.com">>],
       [name |-> <<"S","u","g","a","r"," ","B","o","w","l">>, lat |-> 393018, lon |-> -1203391, website |-> <<"https://www.sugarbowl.com">>],
       [name |-> <<"H","o","m","e","w","o","o","d"," ","M","o","u","n","t","a","i","n"," ","R","e","s","o","r","t">>, lat |-> 390833, lon |-> -1201667, website |-> <<"https://www.skihomewood.com">>],
       [name |-> <<"M","t","."," ","R","o","s","e"," ","S","k","i"," ","T","a","h","o","e">>, lat |-> 393142, lon |-> -1198870, website |-> <<"https://www.skirose.com">>],
       [name |-> <<"D","i","a","m","o","n","d"," ","P","e","a","k">>, lat |-> 392517, lon |-> -1199194, website |-> <<"https://www.diamondpeak.com">>],
       [name |-> <<"B","o","r","e","a","l"," ","M","o","u","n","t","a","i","n"," ","R","e","s","o","r","t">>, lat |-> 393325, lon |-> -1203475, website |-> <<"https://www.rideboreal.com">>],
       [name |-> <<"S","o","d","a"," ","S","p","r","i","n","g","s">>, lat |-> 393197, lon |-> -1203733, website |-> <<"https://www.skisodasprings.com">>],
       [name |-> <<"T","a","h","o","e"," ","D","o","n","n","e","r">>, lat |-> 393175, lon |-> -1202369, website |-> <<"https://www.tahoedonner.com">>] >>

\* the loop of get_tahoe_fallback_resorts over known_resorts[i..]
RECURSIVE FallbackLoop(_, _, _, _, _)
FallbackLoop(i, found, lat, lon, radius_miles) ==
    IF i > Len(known_resorts) THEN found
    ELSE LET resort == known_resorts[i]
             distance == Geodesic(lat, lon, resort.lat, resort.lon)
         IN IF distance <= radius_miles
            THEN FallbackLoop(i + 1,
                     Append(found, [name |-> resort.name, lat |-> resort.lat,
                                      lon |-> resort.lon, distance |-> Round1(distance),
                                      website |-> resort.website, phone |-> <<>>,
                                      source |-> "Fallback Database"]),
                     lat, lon, radius_miles)
            ELSE FallbackLoop(i + 1, found, lat, lon, radius_miles)

\* a finder without the table of known resorts
NoFallbackResorts(lat, lon, radius_miles) == <<>>

get_tahoe_fallback_resorts(lat, lon, radius_miles) ==
    SortByDistance(FallbackLoop(1, <<>>, lat, lon, radius_miles))

\* a dict with no key
EmptyDict == [k \in {} |-> <<>>]

\* what the try block or a function does: return a value, or raise
Return(v) == [raised |-> FALSE, value |-> v]

Raise == [raised |-> TRUE]

\* a loop that keeps the features without a name
SkipsNameUnnamedKept(name, seen) == name \in seen

\* a loop that forgets the names it has seen
SkipsNameNoSeen(name, seen) == name = <<>>

\* "if not name or name in seen: continue"
SkipsName(name, seen) == name = <<>> \/ name \in seen

\* one pass of the for loop's body on elem: "continue" (skip), "append" with the
\* resort record, or "raise" (a subscript the element does not have)
ElementStep(elem, seen, lat, lon, radius_miles) ==
    LET tags == Get(elem, "tags", EmptyDict)
        name == Get(tags, "name", <<>>)
        name_lower == Lower(name)
        dist(elem_lat, elem_lon) == Geodesic(lat, lon, elem_lat, elem_lon)
        keep(elem_lat, elem_lon) ==
            IF dist(elem_lat, elem_lon) <= radius_miles
            THEN [op |-> "append",
                  resort |-> [name |-> name, lat |-> elem_lat, lon |-> elem_lon,
                              distance |-> Round1(dist(elem_lat, elem_lon)),
                              website |-> Get(tags, "website", Get(tags, "contact:website", <<>>)),
                              phone |-> Get(tags, "phone", Get(tags, "contact:phone", <<>>)),
                              source |-> "OpenStreetMap"]]
            ELSE [op |-> "continue"]
    IN IF SkipsName(name, seen) THEN [op |-> "continue"]
       ELSE IF \E i \in 1..Len(exclude_keywords) : In(exclude_keywords[i], name_lower)
       THEN [op |-> "continue"]
       ELSE IF /\ "amenity" \in DOMAIN tags
               /\ tags["amenity"] \in {"ski_school", "ski_rental"}
               /\ "leisure" \notin DOMAIN tags
       THEN [op |-> "continue"]
       ELSE IF "lat" \in DOMAIN elem /\ "lon" \in DOMAIN elem
       THEN keep(elem["lat"], elem["lon"])
       ELSE IF "center" \in DOMAIN elem
       THEN IF "lat" \in DOMAIN elem["center"] /\ "lon" \in DOMAIN elem["center"]
            THEN keep(elem["center"]["lat"], elem["center"]["lon"])
            ELSE [op |-> "raise"]
       ELSE [op |-> "continue"]

\* the for loop of find_ski_resorts_osm over elements[i..]: the found list it
\* leaves, or the exception that ends it
RECURSIVE ElementLoop(_, _, _, _, _, _, _)
ElementLoop(elements, i, found, seen, lat, lon, radius_miles) ==
    IF i > Len(elements) THEN Return(found)
    ELSE LET step == ElementStep(elements[i], seen, lat, lon, radius_miles)
         IN IF step.op = "raise" THEN Raise
            ELSE IF step.op = "append"
            THEN ElementLoop(elements, i + 1, Append(found, step.resort),
                             seen \cup {step.resort.name}, lat, lon, radius_miles)
            ELSE ElementLoop(elements, i + 1, found, seen, lat, lon, radius_miles)

\* the test without .lower()
IsTahoeNoLower(state) == In(<<"t","a","h","o","e">>, Get(state, "location_input", <<>>))

\* "tahoe" in st.state.get("location_input", "").lower()
IsTahoe(state) == In(<<"t","a","h","o","e">>, Lower(Get(state, "location_input", <<>>)))

\* The body of find_ski_resorts_osm (what runs on a cache miss).  overpass is
\* what the Overpass server does with the request; state is
\* st.state.  The result is [raised, value, st_error]: the list
\* returned and whether st.error was called.
find_ski_resorts_osm(lat, lon, radius_miles, overpass, state) ==
    LET try ==
            IF overpass.raises THEN Raise
            ELSE LET loop ==
                         IF overpass.status_code = 200
                         THEN IF ~overpass.json.ok THEN Raise
                              ELSE ElementLoop(Get(overpass.json.data, "elements", <<>>),
                                               1, <<>>, {}, lat, lon, radius_miles)
                         ELSE Return(<<>>)
                 IN IF loop.raised THEN Raise
                    ELSE LET found == loop.value
                         IN IF overpass.status_code = 200 /\ found # <<>>
                            THEN Return(SortByDistance(found))
                            ELSE IF found = <<>> /\ IsTahoe(state)
                            THEN Return(get_tahoe_fallback_resorts(lat, lon, radius_miles))
                            ELSE Return(IF found # <<>> THEN SortByDistance(found) ELSE <<>>)
        except ==
            IF IsTahoe(state)
            THEN Return(get_tahoe_fallback_resorts(lat, lon, radius_miles))
            ELSE Return(<<>>)
    IN IF try.raised
       THEN [raised |-> except.raised, value |-> except.value, st_error |-> TRUE]
       ELSE [raised |-> FALSE, value |-> try.value, st_error |-> FALSE]

\* ------------------------------------------------------------ booking links

\* A date is a day of November 2026; strftime("%Y-%m-%d") of it
Pad2(n) == IF n < 10 THEN "0" \o ToString(n) ELSE ToString(n)

Strftime(date) == "2026-11-" \o Pad2(date)

\* known_patterns, in the order the dict literal gives (the order it iterates in)
known_patterns(date_from_str, date_to_str) ==
    <<
       [key |-> <<"n","o","r","t","h","s","t","a","r">>,
        url |-> <<"https://www.northstarcalifornia.com/plan-your-trip/lift-access/tickets.aspx?startDate=", date_from_str, "&endDate=", date_to_str>>],
       [key |-> <<"h","e","a","v","e","n","l","y">>,
        url |-> <<"https://www.skiheavenly.com/plan-your-trip/lift-access/tickets.aspx?startDate=", date_from_str, "&endDate=", date_to_str>>],
       [key |-> <<"k","i","r","k","w","o","o","d">>,
        url |-> <<"https://www.kirkwood.com/plan-your-trip/lift-access/tickets.aspx?startDate=", date_from_str, "&endDate=", date_to_str>>],
       [key |-> <<"v","a","i","l">>,
        url |-> <<"https://www.vail.com/plan-your-trip/lift-access/tickets.aspx?startDate=", date_from_str, "&endDate=", date_to_str>>],
       [key |-> <<"b","r","e","c","k","e","n","r","i","d","g","e">>,
        url |-> <<"https://www.breckenridge.com/plan-your-trip/lift-access/tickets.aspx?startDate=", date_from_str, "&endDate=", date_to_str>>],
       [key |-> <<"k","e","y","s","t","o","n","e">>,
        url |-> <<"https://www.keystoneresort.com/plan-your-trip/lift-access/tickets.aspx?startDate=", date_from_str, "&endDate=", date_to_str>>],
       [key |-> <<"p","a","r","k","c","i","t","y">>,
        url |-> <<"https://www.parkcitymountain.com/plan-your-trip/lift-access/tickets.aspx?startDate=", date_from_str, "&endDate=", date_to_str>>],
       [key |-> <<"p","a","l","i","s","a","d","e","s">>,
        url |-> <<"https://www.palisadestahoe.com/tickets-passes?arrival=", date_from_str, "&departure=", date_to_str>>],
       [key |-> <<"s","u","g","a","r","b","o","w","l">>,
        url |-> <<"https://www.sugarbowl.com/plan/tickets?date=", date_from_str>>],
       [key |-> <<"s","q","u","a","w">>,
        url |-> <<"https://www.palisadestahoe.com/tickets-passes?arrival=", date_from_str, "&departure=", date_to_str>>],
       [key |-> <<"m","a","m","m","o","t","h">>,
        url |-> <<"https://www.mammothmountain.com/tickets-and-passes/lift-tickets?startDate=", date_from_str>>],
       [key |-> <<"d","e","e","r","v","a","l","l","e","y">>,
        url |-> <<"https://www.deervalley.com/plan/tickets-passes?arrival=", date_from_str, "&departure=", date_to_str>>],
       [key |-> <<"s","t","e","a","m","b","o","a","t">>,
        url |-> <<"https://www.steamboat.com/plan-your-trip/lift-access/tickets?arrival=", date_from_str, "&departure=", date_to_str>>],
       [key |-> <<"s","i","e","r","r","a">>,
        url |-> <<"https://www.sierraattahoe.com/lift-tickets/?date=", date_from_str>>],
       [key |-> <<"a","l","t","a">>,
        url |-> <<"https://www.alta.com/tickets?date=", date_from_str>>],
       [key |-> <<"s","n","o","w","b","i","r","d">>,
        url |-> <<"https://www.snowbird.com/lift-tickets/?arrivaldate=", date_from_str, "&departuredate=", date_to_str>>],
       [key |-> <<"j","a","c","k","s","o","n","h","o","l","e">>,
        url |-> <<"https://www.jacksonhole.com/lift-tickets-passes.html?arrival=", date_from_str, "&departure=", date_to_str>>],
       [key |-> <<"j","a","c","k","s","o","n">>,
        url |-> <<"https://www.jacksonhole.com/lift-tickets-passes.html?arrival=", date_from_str, "&departure=", date_to_str>>],
       [key |-> <<"a","s","p","e","n">>,
        url |-> <<"https://www.aspensnowmass.com/tickets-passes/lift-tickets?startDate=", date_from_str, "&endDate=", date_to_str>>],
       [key |-> <<"s","t","o","w","e">>,
        url |-> <<"https://www.stowe.com/plan-your-trip/lift-access/tickets?arrival=", date_from_str>>],
       [key |-> <<"k","i","l","l","i","n","g","t","o","n">>,
        url |-> <<"https://www.killington.com/plan-your-trip/tickets-and-passes?arrival=", date_from_str>>] >>

lesson_patterns(date_from_str) ==
    <<
       [key |-> <<"n","o","r","t","h","s","t","a","r">>,
        url |-> <<"https://www.northstarcalifornia.com/plan-your-trip/ski-and-ride-school.aspx?startDate=", date_from_str>>],
       [key |-> <<"h","e","a","v","e","n","l","y">>,
        url |-> <<"https://www.skiheavenly.com/plan-your-trip/ski-and-ride-school.aspx?startDate=", date_from_str>>],
       [key |-> <<"p","a","l","i","s","a","d","e","s">>,
        url |-> <<"https://www.palisadestahoe.com/ski-ride-school?date=", date_from_str>>],
       [key |-> <<"v","a","i","l">>,
        url |-> <<"https://www.vail.com/plan-your-trip/ski-and-ride-school.aspx?startDate=", date_from_str>>],
       [key |-> <<"b","r","e","c","k","e","n","r","i","d","g","e">>,
        url |-> <<"https://www.breckenridge.com/plan-your-trip/ski-and-ride-school.aspx?startDate=", date_from_str>>] >>

rental_patterns(date_from_str) ==
    <<
       [key |-> <<"n","o","r","t","h","s","t","a","r">>,
        url |-> <<"https://www.northstarcalifornia.com/plan-your-trip/rentals-and-demos.aspx?startDate=", date_from_str>>],
       [key |-> <<"h","e","a","v","e","n","l","y">>,
        url |-> <<"https://www.skiheavenly.com/plan-your-trip/rentals-and-demos.aspx?startDate=", date_from_str>>],
       [key |-> <<"p","a","l","i","s","a","d","e","s">>,
        url |-> <<"https://www.palisadestahoe.com/rentals?date=", date_from_str>>],
       [key |-> <<"v","a","i","l">>,
        url |-> <<"https://www.vail.com/plan-your-trip/rentals-and-demos.aspx?startDate=", date_from_str>>] >>

\* a loop without its break: the last key found in the slug wins
RECURSIVE MatchPatternNoBreak(_, _, _)
MatchPatternNoBreak(patterns, i, resort_slug) ==
    IF i > Len(patterns) THEN <<>>
    ELSE LET rest == MatchPatternNoBreak(patterns, i + 1, resort_slug)
         IN IF rest = <<>> /\ In(patterns[i].key, resort_slug) THEN patterns[i].url
            ELSE rest

\* "for key, url in patterns.items(): if key in resort_slug: ... break", from
\* entry i on: the url of the first key found in the slug, None (<<>>) if none
RECURSIVE MatchPattern(_, _, _)
MatchPattern(patterns, i, resort_slug) ==
    IF i > Len(patterns) THEN <<>>
    ELSE IF In(patterns[i].key, resort_slug) THEN patterns[i].url
    ELSE MatchPattern(patterns, i + 1, resort_slug)

base_ticket_price == 150

\* a lesson fee charged per day
EstimateCostLessonPerDay(trip_days, need_lesson, need_rental) ==
    LET lesson_price == IF need_lesson THEN 200 ELSE 0
        rental_price == IF need_rental THEN 50 ELSE 0
        daily_cost == base_ticket_price + rental_price + lesson_price
    IN daily_cost * trip_days

\* "Estimate costs": total_cost
EstimateCost(trip_days, need_lesson, need_rental) ==
    LET lesson_price == IF need_lesson THEN 200 ELSE 0
        rental_price == IF need_rental THEN 50 ELSE 0
        daily_cost == base_ticket_price + rental_price
    IN (daily_cost * trip_days) + lesson_price

\* a lesson link built whether or not lessons were asked for
LessonLinkUngated(need_lesson, lesson_url, resort_website, resort_plus, date_from_str) ==
    IF lesson_url # <<>> THEN lesson_url
    ELSE IF resort_website # <<>>
    THEN RStripSlash(resort_website) \o <<"/ski-school?date=", date_from_str>>
    ELSE <<"https://www.google.com/search?q=">> \o resort_plus
             \o <<"+ski+lessons+", date_from_str>>

\* "if need_lesson:": the lesson link, "" (<<>>) when lessons were not asked
\* for; lesson_url is what the lesson table gave
LessonLink(need_lesson, lesson_url, resort_website, resort_plus, date_from_str) ==
    IF ~need_lesson THEN <<>>
    ELSE IF lesson_url # <<>> THEN lesson_url
    ELSE IF resort_website # <<>>
    THEN RStripSlash(resort_website) \o <<"/ski-school?date=", date_from_str>>
    ELSE <<"https://www.google.com/search?q=">> \o resort_plus
             \o <<"+ski+lessons+", date_from_str>>

\* generate_booking_urls: the booking_info dict.  A link is a tuple of text
\* pieces whose concatenation is the URL; display labels are given without
\* their emoji.
generate_booking_urls(resort_name, resort_website, date_from, date_to, need_lesson, need_rental) ==
    LET date_from_str == Strftime(date_from)
        date_to_str == Strftime(date_to)
        resort_slug == Replace(Replace(Lower(resort_name), " ", <<>>), "-", <<>>)
        resort_plus == Replace(resort_name, " ", <<"+">>)
        trip_days == (date_to - date_from) + 1
        matched_url == MatchPattern(known_patterns(date_from_str, date_to_str), 1, resort_slug)
        lesson_url == MatchPattern(lesson_patterns(date_from_str), 1, resort_slug)
        rental_url == MatchPattern(rental_patterns(date_from_str), 1, resort_slug)
        package_query ==
            resort_plus \o <<"+ski+package">>
                \o (IF need_lesson THEN <<"+lessons">> ELSE <<>>)
                \o (IF need_rental THEN <<"+rentals">> ELSE <<>>)
                \o <<"+", date_from_str, "+to+", date_to_str>>
    IN [lift_ticket_link |->
            IF matched_url # <<>> THEN matched_url
            ELSE IF resort_website # <<>>
            THEN RStripSlash(resort_website)
                     \o <<"/plan-your-trip/lift-access/tickets?startDate=", date_from_str,
                          "&endDate=", date_to_str>>
            ELSE <<"https://www.google.com/search?q=">> \o resort_plus
                     \o <<"+lift+tickets+", date_from_str, "+to+", date_to_str>>,
        lift_ticket_display |->
            IF matched_url # <<>> \/ resort_website # <<>>
            THEN "Book Lift Tickets" ELSE "Search Lift Tickets",
        lesson_link |->
            LessonLink(need_lesson, lesson_url, resort_website, resort_plus, date_from_str),
        lesson_display |-> IF need_lesson THEN "Book Lessons" ELSE "",
        rental_link |->
            IF ~need_rental THEN <<>>
            ELSE IF rental_url # <<>> THEN rental_url
            ELSE IF resort_website # <<>>
            THEN RStripSlash(resort_website) \o <<"/rentals?date=", date_from_str>>
            ELSE <<"https://www.google.com/search?q=">> \o resort_plus
                     \o <<"+ski+rental+", date_from_str>>,
        rental_display |-> IF need_rental THEN "Book Rentals" ELSE "",
        full_package_link |-> <<"https://www.google.com/search?q=">> \o package_query,
        estimated_total |-> "~$" \o ToString(EstimateCost(trip_days, need_lesson, need_rental)),
        trip_days |-> trip_days]

\* ---------------------------------------------------------------- sentiment

\* reputation_map, in the order the dict literal gives; a score is in
\* hundredths (0.25 is 25)
reputation_map ==
    << [key |-> <<"v","a","i","l">>, score |-> 25],
       [key |-> <<"a","s","p","e","n">>, score |-> 28],
       [key |-> <<"d","e","e","r"," ","v","a","l","l","e","y">>, score |-> 30],
       [key |-> <<"j","a","c","k","s","o","n"," ","h","o","l","e">>, score |-> 27],
       [key |-> <<"p","a","r","k"," ","c","i","t","y">>, score |-> 22],
       [key |-> <<"s","t","e","a","m","b","o","a","t">>, score |-> 23],
       [key |-> <<"t","e","l","l","u","r","i","d","e">>, score |-> 28],
       [key |-> <<"h","e","a","v","e","n","l","y">>, score |-> 20],
       [key |-> <<"n","o","r","t","h","s","t","a","r">>, score |-> 18],
       [key |-> <<"p","a","l","i","s","a","d","e","s">>, score |-> 25],
       [key |-> <<"s","q","u","a","w">>, score |-> 25],
       [key |-> <<"a","l","p","i","n","e"," ","m","e","a","d","o","w","s">>, score |-> 20],
       [key |-> <<"k","i","r","k","w","o","o","d">>, score |-> 22],
       [key |-> <<"s","i","e","r","r","a">>, score |-> 15],
       [key |-> <<"s","i","e","r","r","a","-","a","t","-","t","a","h","o","e">>, score |-> 15],
       [key |-> <<"s","u","g","a","r"," ","b","o","w","l">>, score |-> 18],
       [key |-> <<"h","o","m","e","w","o","o","d">>, score |-> 16],
       [key |-> <<"m","t","."," ","r","o","s","e">>, score |-> 17],
       [key |-> <<"m","t"," ","r","o","s","e">>, score |-> 17],
       [key |-> <<"d","i","a","m","o","n","d"," ","p","e","a","k">>, score |-> 14],
       [key |-> <<"b","o","r","e","a","l">>, score |-> 10],
       [key |-> <<"s","o","d","a"," ","s","p","r","i","n","g","s">>, score |-> 8],
       [key |-> <<"t","a","h","o","e"," ","d","o","n","n","e","r">>, score |-> 10],
       [key |-> <<"b","r","e","c","k","e","n","r","i","d","g","e">>, score |-> 23],
       [key |-> <<"k","e","y","s","t","o","n","e">>, score |-> 18],
       [key |-> <<"c","o","p","p","e","r">>, score |-> 20],
       [key |-> <<"w","i","n","t","e","r"," ","p","a","r","k">>, score |-> 19],
       [key |-> <<"l","o","v","e","l","a","n","d">>, score |-> 16],
       [key |-> <<"a","r","a","p","a","h","o","e">>, score |-> 15],
       [key |-> <<"a","-","b","a","s","i","n">>, score |-> 18],
       [key |-> <<"e","l","d","o","r","a">>, score |-> 12],
       [key |-> <<"c","r","e","s","t","e","d"," ","b","u","t","t","e">>, score |-> 21],
       [key |-> <<"m","o","n","a","r","c","h">>, score |-> 14],
       [key |-> <<"w","o","l","f"," ","c","r","e","e","k">>, score |-> 19],
       [key |-> <<"a","l","t","a">>, score |-> 28],
       [key |-> <<"s","n","o","w","b","i","r","d">>, score |-> 27],
       [key |-> <<"b","r","i","g","h","t","o","n">>, score |-> 19],
       [key |-> <<"s","o","l","i","t","u","d","e">>, score |-> 20],
       [key |-> <<"p","o","w","d","e","r"," ","m","o","u","n","t","a","i","n">>, score |-> 22],
       [key |-> <<"s","n","o","w","b","a","s","i","n">>, score |-> 21],
       [key |-> <<"s","u","n","d","a","n","c","e">>, score |-> 15],
       [key |-> <<"s","t","o","w","e">>, score |-> 19],
       [key |-> <<"k","i","l","l","i","n","g","t","o","n">>, score |-> 16],
       [key |-> <<"s","u","g","a","r","b","u","s","h">>, score |-> 17],
       [key |-> <<"s","u","n","d","a","y"," ","r","i","v","e","r">>, score |-> 15],
       [key |-> <<"s","u","g","a","r","l","o","a","f">>, score |-> 18],
       [key |-> <<"j","a","y"," ","p","e","a","k">>, score |-> 20],
       [key |-> <<"w","h","i","t","e","f","a","c","e">>, score |-> 14],
       [key |-> <<"o","k","e","m","o">>, score |-> 13],
       [key |-> <<"s","t","r","a","t","t","o","n">>, score |-> 14],
       [key |-> <<"m","o","u","n","t"," ","s","n","o","w">>, score |-> 12],
       [key |-> <<"l","o","o","n">>, score |-> 13],
       [key |-> <<"b","r","e","t","t","o","n"," ","w","o","o","d","s">>, score |-> 14],
       [key |-> <<"c","r","y","s","t","a","l">>, score |-> 20],
       [key |-> <<"m","t"," ","b","a","k","e","r">>, score |-> 24],
       [key |-> <<"s","t","e","v","e","n","s">>, score |-> 16],
       [key |-> <<"w","h","i","s","t","l","e","r">>, score |-> 28],
       [key |-> <<"s","n","o","q","u","a","l","m","i","e">>, score |-> 12],
       [key |-> <<"m","t"," ","h","o","o","d"," ","m","e","a","d","o","w","s">>, score |-> 18],
       [key |-> <<"t","i","m","b","e","r","l","i","n","e">>, score |-> 17],
       [key |-> <<"m","i","s","s","i","o","n"," ","r","i","d","g","e">>, score |-> 15],
       [key |-> <<"m","t"," ","b","a","c","h","e","l","o","r">>, score |-> 21],
       [key |-> <<"m","a","m","m","o","t","h">>, score |-> 24],
       [key |-> <<"m","o","u","n","t","a","i","n"," ","h","i","g","h">>, score |-> 8],
       [key |-> <<"b","e","a","r"," ","m","o","u","n","t","a","i","n">>, score |-> 9],
       [key |-> <<"j","u","n","e"," ","m","o","u","n","t","a","i","n">>, score |-> 16],
       [key |-> <<"s","n","o","w"," ","s","u","m","m","i","t">>, score |-> 10],
       [key |-> <<"c","h","i","n","a"," ","p","e","a","k">>, score |-> 12],
       [key |-> <<"e","c","h","o"," ","m","o","u","n","t","a","i","n">>, score |-> 10],
       [key |-> <<"s","k","i"," ","c","o","o","p","e","r">>, score |-> 12],
       [key |-> <<"p","u","r","g","a","t","o","r","y">>, score |-> 14],
       [key |-> <<"t","a","o","s">>, score |-> 22],
       [key |-> <<"r","e","d"," ","r","i","v","e","r">>, score |-> 13],
       [key |-> <<"a","n","g","e","l"," ","f","i","r","e">>, score |-> 11] >>

\* str.upper() on one character
UpperChar(c) ==
    IF \E i \in 1..26 : LowerAlpha[i] = c
    THEN UpperAlpha[CHOOSE i \in 1..26 : LowerAlpha[i] = c]
    ELSE c

IsLetter(c) == \E i \in 1..26 : LowerAlpha[i] = c \/ UpperAlpha[i] = c

\* str.title(): a letter that follows no letter is upper-cased, any other lower-cased
Title(s) ==
    [i \in 1..Len(s) |->
        IF i = 1 \/ ~IsLetter(s[i - 1]) THEN UpperChar(s[i]) ELSE LowerChar(s[i])]

\* "for resort_key, score in reputation_map.items(): if resort_key in
\* resort_lower: ... break", from entry i on: the entry matched, or NoMatch
NoMatch == [key |-> <<>>, score |-> 0]

RECURSIVE MatchReputation(_, _)
MatchReputation(i, resort_lower) ==
    IF i > Len(reputation_map) THEN NoMatch
    ELSE IF In(reputation_map[i].key, resort_lower) THEN reputation_map[i]
    ELSE MatchReputation(i + 1, resort_lower)

\* generic tokens that score nothing
GenericScoreNone(resort_lower) == 0

\* the score of a name that matched no key: "If no specific match but contains
\* certain positive keywords"
GenericScore(resort_lower) ==
    IF \E word \in { <<"r","e","s","o","r","t">>, <<"m","o","u","n","t","a","i","n">>, <<"s","k","i"," ","a","r","e","a">> } : In(word, resort_lower) THEN 10
    ELSE IF \E word \in { <<"t","a","h","o","e">>, <<"a","l","p","i","n","e">>, <<"p","e","a","k">>, <<"v","a","l","l","e","y">> } : In(word, resort_lower) THEN 12
    ELSE 0

\* round(max(0, min(100, 50 + sentiment_score * 150))), ties to the even integer
PositivePct(sentiment_score) ==
    LET twice == 100 + 3 * sentiment_score          \* 2 * (50 + 1.5 * score)
        clamped == IF twice < 0 THEN 0 ELSE IF twice > 200 THEN 200 ELSE twice
        q == clamped \div 2
    IN IF clamped % 2 = 0 THEN q
       ELSE IF q % 2 = 0 THEN q ELSE q + 1

\* The body of get_reddit_sentiment (what runs on a cache miss); analyzer is whether
\* the module-level analyzer was built.  The result is the tuple (sentiment_score
\* in hundredths, positive percentage, post count, debug message).
get_reddit_sentiment(resort_name, analyzer) ==
    IF ~analyzer THEN <<0, 50, 0, <<"VADER not available">> >>
    ELSE LET resort_lower == Lower(resort_name)
             match == MatchReputation(1, resort_lower)
             sentiment_score ==
                 IF match.score = 0 THEN GenericScore(resort_lower) ELSE match.score
             debug_msg ==
                 IF match.key # <<>>
                 THEN <<"Reputation score for ">> \o Title(match.key)
                 ELSE <<"General resort score">>
         IN <<sentiment_score, PositivePct(sentiment_score), 0, debug_msg>>

\* ------------------------------------------------------------------ weather

\* the exceptions a narrower handler would still catch
CatchesKeyErrorOnly(exc) == exc = "KeyError"

\* the bare "except:" of get_weather_forecast catches every exception
Catches(exc) == TRUE

\* what the try block of get_weather_forecast does.  nws is what the weather
\* service does with the two requests: nws.point and nws.forecast are each
\* [kind |-> "raise"] (requests.get raises), [kind |-> "not_json"] (.json()
\* raises) or [kind |-> "json", json |-> the body].  The result names the
\* exception raised ("none" if none), whether the try block returned, the
\* string it returned and the requests issued, in order.
WeatherTry(lat, lon, nws) ==
    LET point_req == [url |-> "https://api.weather.gov/points/", lat |-> lat, lon |-> lon]
        fail(exc, reqs) == [exc |-> exc, returned |-> FALSE, value |-> "", requests |-> reqs]
    IN IF nws.point.kind = "raise" THEN fail("RequestException", <<point_req>>)
       ELSE IF nws.point.kind = "not_json" THEN fail("JSONDecodeError", <<point_req>>)
       ELSE IF ~("properties" \in DOMAIN nws.point.json
                 /\ "forecast" \in DOMAIN nws.point.json["properties"])
       THEN fail("KeyError", <<point_req>>)
       ELSE LET forecast_url == nws.point.json["properties"]["forecast"]
                reqs == <<point_req, [url |-> forecast_url]>>
            IN IF nws.forecast.kind = "raise" THEN fail("RequestException", reqs)
               ELSE IF nws.forecast.kind = "not_json" THEN fail("JSONDecodeError", reqs)
               ELSE IF ~("properties" \in DOMAIN nws.forecast.json
                         /\ "periods" \in DOMAIN nws.forecast.json["properties"])
               THEN fail("KeyError", reqs)
               ELSE LET periods == nws.forecast.json["properties"]["periods"]
                    IN IF periods = <<>> THEN fail("none", reqs)
                       ELSE IF ~("temperature" \in DOMAIN periods[1]
                                 /\ "shortForecast" \in DOMAIN periods[1])
                       THEN fail("KeyError", reqs)
                       ELSE [exc |-> "none", returned |-> TRUE,
                             value |-> ToString(periods[1]["temperature"]) \o " F - "
                                           \o periods[1]["shortForecast"],
                             requests |-> reqs]

\* get_weather_forecast: [raised, value, requests]
get_weather_forecast(lat, lon, nws) ==
    LET try == WeatherTry(lat, lon, nws)
    IN IF try.exc # "none" /\ ~Catches(try.exc)
       THEN [raised |-> TRUE, value |-> "", requests |-> try.requests]
       ELSE IF try.returned
       THEN [raised |-> FALSE, value |-> try.value, requests |-> try.requests]
       ELSE [raised |-> FALSE, value |-> "Weather unavailable", requests |-> try.requests]

\* ----------------------------------------------------------------- geocoder

\* what get_location_coordinates returns when nothing was found: (None, None, None)
NoLocation == [none |-> TRUE]

\* The body of get_location_coordinates (what runs on a cache miss).  nominatim
\* is what the geocoding service does: [kind |-> "raise"], [kind |-> "none"]
\* (no match) or [kind |-> "found", lat, lon, address].  The result is
\* [value, st_error].
get_location_coordinates(location_name, nominatim) ==
    IF nominatim.kind = "raise" THEN [value |-> NoLocation, st_error |-> TRUE]
    ELSE IF nominatim.kind = "found"
    THEN [value |-> [none |-> FALSE, lat |-> nominatim.lat, lon |-> nominatim.lon,
                     address |-> nominatim.address],
          st_error |-> FALSE]
    ELSE [value |-> NoLocation, st_error |-> FALSE]

\* "if lat and lon": None and 0.0 are both false
LatAndLon(loc) == ~loc.none /\ loc.lat # 0 /\ loc.lon # 0

\* --------------------------------------------------------- the search run

\* a test on the button alone
RunsSearchButtonOnly(search_button, trip_days) == search_button

\* "if search_button and trip_days >= 1"
RunsSearch(search_button, trip_days) == search_button /\ trip_days >= 1

\* f"{resort['distance']} mi", the distance being in tenths of a mile
DistanceText(distance) ==
    ToString(distance \div 10) \o "." \o ToString(distance % 10) \o " mi"

\* the emoji thresholds, on a score in hundredths; emoji are named
Emoji(sentiment) ==
    IF sentiment >= 20 THEN "heart-eyes"
    ELSE IF sentiment >= 5 THEN "smiling"
    ELSE IF sentiment >= -5 THEN "neutral"
    ELSE IF sentiment >= -20 THEN "confused"
    ELSE "disappointed"

\* vibe_text
VibeText(sentiment, review_count) ==
    <<Emoji(sentiment), ToString(sentiment)>>
        \o (IF review_count > 0 THEN <<ToString(review_count), "posts">> ELSE <<>>)

\* the dict appended to resort_data for one resort
ResortRow(resort, booking, sentiment_result, weather, need_lesson, need_rental) ==
    [Resort |-> resort.name,
     Distance |-> DistanceText(resort.distance),
     Weather |-> weather,
     Reddit_Vibe |-> VibeText(sentiment_result[1], sentiment_result[3]),
     Est_Total |-> booking.estimated_total,
     Lift_Tickets |-> booking.lift_ticket_link,
     Lessons |-> IF need_lesson THEN booking.lesson_link ELSE <<>>,
     Rentals |-> IF need_rental THEN booking.rental_link ELSE <<>>,
     Package_Search |-> booking.full_package_link,
     resort_obj |-> resort,
     booking_obj |-> booking,
     debug |-> sentiment_result[4]]

\* a loop that skips the resorts without a forecast
AppendRowWithForecast(rows, row) ==
    IF row.Weather = "Weather unavailable" THEN rows ELSE Append(rows, row)

\* resort_data.append(row): every resort gets its row, whatever its weather
AppendRow(rows, row) == Append(rows, row)

\* ------------------------------------------------- inputs of the functions

\* the longest Overpass response explored
MaxElems == 2

SeqsUpTo(S, n) == UNION {[1..k -> S] : k \in 0..n}

\* a search origin: Lake Tahoe, 39.0968 N 120.0324 W
Origin == [lat |-> 390968, lon |-> -1200324]

Node(tags, lat, lon) == ("tags" :> tags) @@ ("lat" :> lat) @@ ("lon" :> lon)

Way(tags, lat, lon) == ("tags" :> tags) @@ ("center" :> [lat |-> lat, lon |-> lon])

\* Overpass elements: named and unnamed, with and without coordinates, inside
\* and outside the radii, two pairs sharing a name
Elements ==
    { \* 4.96 miles away
      Node(("name" :> <<"H","e","a","v","e","n","l","y">>) @@ ("leisure" :> "ski_resort")
             @@ ("website" :> <<"https://www.skiheavenly.com", "/">>),
           Origin.lat + 719, Origin.lon),
      \* 12.00 miles away
      Way(("name" :> <<"H","e","a","v","e","n","l","y">>) @@ ("sport" :> "skiing")
             @@ ("contact:website" :> <<"https://www.heavenly.example">>),
          Origin.lat - 1740, Origin.lon),
      \* 3.00 miles away
      Node(("name" :> <<"K","i","r","k","w","o","o","d">>) @@ ("leisure" :> "ski_resort")
             @@ ("phone" :> <<"+1 209 258 6000">>),
           Origin.lat, Origin.lon + 556),
      \* a ski school that is not the resort, 1.00 mile away
      Node(("name" :> <<"K","i","r","k","w","o","o","d">>) @@ ("amenity" :> "ski_school"),
           Origin.lat + 145, Origin.lon),
      \* unnamed
      Node(("leisure" :> "ski_resort"), Origin.lat + 10, Origin.lon),
      \* a name with an excluded keyword
      Node(("name" :> <<"H","e","a","v","e","n","l","y"," ","P","a","r","k","i","n","g">>) @@ ("sport" :> "skiing"),
           Origin.lat + 20, Origin.lon),
      \* a relation without coordinates
      ("tags" :> (("name" :> <<"S","u","g","a","r"," ","B","o","w","l">>) @@ ("leisure" :> "ski_resort"))),
      \* a center without a latitude
      ("tags" :> (("name" :> <<"B","o","r","e","a","l">>) @@ ("leisure" :> "ski_resort")))
          @@ ("center" :> [lon |-> Origin.lon]),
      \* at the origin itself
      Way(("name" :> <<"H","o","m","e","w","o","o","d">>) @@ ("leisure" :> "ski_resort"), Origin.lat, Origin.lon),
      \* 2.45 miles away
      Node(("name" :> <<"D","i","a","m","o","n","d"," ","P","e","a","k">>) @@ ("leisure" :> "ski_resort")
             @@ ("website" :> <<"https://www.diamondpeak.com">>)
             @@ ("contact:website" :> <<"https://other.example">>),
           Origin.lat - 356, Origin.lon) }

\* what the Overpass server may do with a request
OverpassOutcomes ==
    {[raises |-> TRUE]}
    \cup {[raises |-> FALSE, status_code |-> 504, json |-> [ok |-> FALSE]]}
    \cup {[raises |-> FALSE, status_code |-> 200, json |-> [ok |-> FALSE]]}
    \cup {[raises |-> FALSE, status_code |-> 200,
           json |-> [ok |-> TRUE, data |-> ("remark" :> "runtime error")]]}
    \cup {[raises |-> FALSE, status_code |-> 200,
           json |-> [ok |-> TRUE, data |-> ("elements" :> es)]] :
          es \in SeqsUpTo(Elements, MaxElems)}

\* radius_miles values: 0, 4.96, 5 and 20 miles
Radii == {0, 496, 500, 2000}

Locations == { <<"L","a","k","e"," ","T","a","h","o","e",","," ","C","A">>, <<"R","e","n","o",","," ","N","V">> }

PoiCalls ==
    [fn : {"find_ski_resorts_osm"}, lat : {Origin.lat}, lon : {Origin.lon},
     radius_miles : Radii, overpass : OverpassOutcomes,
     session_state : {("location_input" :> l) : l \in Locations}]

\* the longest trip explored, in days
MaxTripDays == 3

BookingNames ==
    { <<"H","e","a","v","e","n","l","y">>, <<"S","u","g","a","r"," ","B","o","w","l">>, <<"S","i","e","r","r","a","-","a","t","-","T","a","h","o","e">>, <<"S","n","o","w","b","i","r","d","-","A","l","t","a">>,
      <<"J","a","c","k","s","o","n"," ","H","o","l","e">>, <<"D","i","a","m","o","n","d"," ","P","e","a","k">> }

Websites == { <<>>, <<"https://www.resort.example">>, <<"https://www.resort.example", "/", "/">> }

\* trips start on 8 or 9 November and end between 7 November (before the start)
\* and MaxTripDays days after the 8th
BookingCalls ==
    [fn : {"generate_booking_urls"}, resort_name : BookingNames, resort_website : Websites,
     date_from : {8, 9},
     date_to : 7..(8 + MaxTripDays),
     need_lesson : BOOLEAN, need_rental : BOOLEAN]

SentimentNames ==
    { <<"H","e","a","v","e","n","l","y">>, <<"S","i","e","r","r","a","-","a","t","-","T","a","h","o","e">>, <<"M","t","."," ","R","o","s","e"," ","S","k","i"," ","T","a","h","o","e">>, <<"B","o","r","e","a","l"," ","M","o","u","n","t","a","i","n"," ","R","e","s","o","r","t">>,
      <<"J","a","c","k","s","o","n"," ","H","o","l","e">>, <<"D","o","n","n","e","r"," ","S","k","i"," ","R","a","n","c","h">>, <<"B","e","a","r"," ","V","a","l","l","e","y">>, <<"G","r","a","n","l","i","b","a","k","k","e","n"," ","R","e","s","o","r","t">>,
      <<"D","o","d","g","e"," ","R","i","d","g","e">>, <<"D","E","E","R"," ","V","A","L","L","E","Y">>, <<"T","a","h","o","e"," ","D","o","n","n","e","r">> }

SentimentCalls == [fn : {"get_reddit_sentiment"}, resort_name : SentimentNames, sia : BOOLEAN]

ForecastUrl == "https://api.weather.gov/gridpoints/REV/41,86/forecast"

\* what the weather service may do with the point request
PointOutcomes ==
    { [kind |-> "raise"], [kind |-> "not_json"],
      [kind |-> "json", json |-> ("status" :> "404")],
      [kind |-> "json", json |-> ("properties" :> ("gridId" :> "REV"))],
      [kind |-> "json", json |-> ("properties" :> ("forecast" :> ForecastUrl))] }

\* ... and with the forecast request
ForecastOutcomes ==
    { [kind |-> "raise"], [kind |-> "not_json"],
      [kind |-> "json", json |-> ("status" :> "503")],
      [kind |-> "json", json |-> ("properties" :> ("units" :> "us"))],
      [kind |-> "json", json |-> ("properties" :> ("periods" :> <<>>))],
      [kind |-> "json", json |-> ("properties" :> ("periods" :> << ("name" :> "Tonight") >>))],
      [kind |-> "json",
       json |-> ("properties" :> ("periods" :>
                    << ("temperature" :> 28) @@ ("shortForecast" :> "Snow Showers"),
                       ("temperature" :> 35) @@ ("shortForecast" :> "Sunny") >>))] }

NwsOutcomes == [point : PointOutcomes, forecast : ForecastOutcomes]

WeatherCalls ==
    [fn : {"get_weather_forecast"}, lat : {389352, 391970}, lon : {-1199393},
     nws : NwsOutcomes]

\* ------------------------------------------------ the functions, called alone

Calls == PoiCalls \cup BookingCalls \cup SentimentCalls \cup WeatherCalls

\* the script's variables take no part in a function called alone
Idle ==
    /\ pc = "idle"
    /\ runs = 0
    /\ widgets = [search_button |-> FALSE]
    /\ sia = FALSE
    /\ session_state = <<>>
    /\ geo_cache = <<>>
    /\ osm_cache = <<>>
    /\ sentiment_cache = <<>>
    /\ location = [none |-> TRUE]
    /\ resorts = <<>>
    /\ idx = 0
    /\ resort_data = <<>>
    /\ ui = {}
    /\ calls = <<>>
    /\ weather_seen = <<>>
    /\ weather_call = [fn |-> "none"]
    /\ osm_upstream = <<>>

InitFn == call \in Calls /\ ret = NoRet /\ Idle

CallFindSkiResorts ==
    /\ call.fn = "find_ski_resorts_osm"
    /\ ret = NoRet
    /\ ret' = [fn |-> call.fn,
               out |-> find_ski_resorts_osm(call.lat, call.lon, call.radius_miles,
                                            call.overpass, call.session_state)]
    /\ UNCHANGED <<call, appvars>>

CallGenerateBookingUrls ==
    /\ call.fn = "generate_booking_urls"
    /\ ret = NoRet
    /\ ret' = [fn |-> call.fn,
               out |-> generate_booking_urls(call.resort_name, call.resort_website,
                                             call.date_from, call.date_to,
                                             call.need_lesson, call.need_rental)]
    /\ UNCHANGED <<call, appvars>>

CallGetRedditSentiment ==
    /\ call.fn = "get_reddit_sentiment"
    /\ ret = NoRet
    /\ ret' = [fn |-> call.fn, out |-> get_reddit_sentiment(call.resort_name, call.sia)]
    /\ UNCHANGED <<call, appvars>>

CallGetWeatherForecast ==
    /\ call.fn = "get_weather_forecast"
    /\ ret = NoRet
    /\ ret' = [fn |-> call.fn, out |-> get_weather_forecast(call.lat, call.lon, call.nws)]
    /\ UNCHANGED <<call, appvars>>

NextFn ==
    \/ CallFindSkiResorts
    \/ CallGenerateBookingUrls
    \/ CallGetRedditSentiment
    \/ CallGetWeatherForecast

SpecFn == InitFn /\ [][NextFn]_vars

\* ----------------------------------------------------- inputs of the script

\* the script runs explored in one session
MaxRuns == 2

\* the sidebar's defaults: Lake Tahoe, 20 miles, a 3-day trip a week from now,
\* rental only, the button not pressed
DefaultWidgets ==
    [location_input |-> <<"L","a","k","e"," ","T","a","h","o","e",","," ","C","A">>, radius |-> 2000, date_from |-> 8, date_to |-> 10,
     need_lesson |-> FALSE, need_rental |-> TRUE, search_button |-> FALSE]

\* what a user may set before a run: either location, 5 or 10 miles, an end
\* date before or on the start date (no trip, a 1-day trip), rentals or lessons,
\* the button pressed or not
WidgetInputs ==
    { [location_input |-> l, radius |-> r, date_from |-> 8, date_to |-> d,
       need_lesson |-> o, need_rental |-> ~o, search_button |-> b] :
      l \in Locations, r \in {500, 1000}, d \in {7, 8}, o \in BOOLEAN, b \in BOOLEAN }

\* what the geocoding service may do: fail, find nothing, find Lake Tahoe, or
\* find a point on the equator
NominatimOutcomes ==
    { [kind |-> "raise"], [kind |-> "none"],
      [kind |-> "found", lat |-> Origin.lat, lon |-> Origin.lon, address |-> <<"L","a","k","e"," ","T","a","h","o","e",","," ","C","a","l","i","f","o","r","n","i","a">>],
      [kind |-> "found", lat |-> 0, lon |-> Origin.lon, address |-> <<"P","a","c","i","f","i","c"," ","O","c","e","a","n">>] }

\* what the Overpass server may do during a search: fail, find nothing, or
\* return Heavenly (4.96 miles away) before Kirkwood (3.00 miles away)
SearchOverpassOutcomes ==
    { [raises |-> TRUE],
      [raises |-> FALSE, status_code |-> 200, json |-> [ok |-> TRUE, data |-> ("elements" :> <<>>)]],
      [raises |-> FALSE, status_code |-> 200,
       json |-> [ok |-> TRUE, data |-> ("elements" :>
          << Node(("name" :> <<"H","e","a","v","e","n","l","y">>) @@ ("leisure" :> "ski_resort")
                    @@ ("website" :> <<"https://www.skiheavenly.com", "/">>),
                  Origin.lat + 719, Origin.lon),
             Node(("name" :> <<"K","i","r","k","w","o","o","d">>) @@ ("leisure" :> "ski_resort"),
                  Origin.lat, Origin.lon + 556) >>)]] }

\* what the weather service may do during a search: refuse the point request,
\* return no periods, or return a forecast
SearchNwsOutcomes ==
    { [point |-> [kind |-> "raise"], forecast |-> [kind |-> "raise"]],
      [point |-> [kind |-> "json", json |-> ("properties" :> ("forecast" :> ForecastUrl))],
       forecast |-> [kind |-> "json", json |-> ("properties" :> ("periods" :> <<>>))]],
      [point |-> [kind |-> "json", json |-> ("properties" :> ("forecast" :> ForecastUrl))],
       forecast |-> [kind |-> "json",
                     json |-> ("properties" :> ("periods" :>
                         << ("temperature" :> 28) @@ ("shortForecast" :> "Snow Showers") >>))]] }

NoCall == [fn |-> "none"]

\* ------------------------------------------------------------- the script

\* The page as first loaded: the script has run once with the defaults and shows
\* the welcome screen; every cache is empty.
Init ==
    /\ call = NoCall
    /\ ret = NoRet
    /\ pc = "idle"
    /\ runs = 0
    /\ widgets = DefaultWidgets
    /\ sia \in BOOLEAN
    /\ session_state = EmptyDict
    /\ geo_cache = EmptyDict
    /\ osm_cache = EmptyDict
    /\ sentiment_cache = EmptyDict
    /\ location = NoLocation
    /\ resorts = <<>>
    /\ idx = 0
    /\ resort_data = <<>>
    /\ ui = {"Trip", "welcome"}
    /\ calls = <<>>
    /\ weather_seen = EmptyDict
    /\ weather_call = NoCall
    /\ osm_upstream = EmptyDict

\* trip_days = (date_to - date_from).days + 1
TripDays(w) == (w.date_to - w.date_from) + 1

\* the sidebar's message about the dates
Sidebar(w) == IF TripDays(w) < 1 THEN {"End date must be after start date!"} ELSE {"Trip"}

\* Any interaction re-runs the script from the top with the widgets' values w.
\* The sidebar is drawn; then either the search branch is entered, which starts
\* by storing the location in the session state, or the welcome screen is shown.
Rerun(w) ==
    /\ pc = "idle"
    /\ runs < MaxRuns
    /\ runs' = runs + 1
    /\ widgets' = w
    /\ location' = NoLocation
    /\ resorts' = <<>>
    /\ idx' = 0
    /\ resort_data' = <<>>
    /\ calls' = <<>>
    /\ weather_call' = NoCall
    /\ IF RunsSearch(w.search_button, TripDays(w))
       THEN /\ session_state' = ("location_input" :> w.location_input) @@ session_state
            /\ ui' = Sidebar(w)
            /\ pc' = "geocode"
       ELSE /\ session_state' = session_state
            /\ ui' = Sidebar(w) \cup {"welcome"}
            /\ pc' = "idle"
    /\ UNCHANGED <<call, ret, sia, geo_cache, osm_cache, sentiment_cache, weather_seen,
                   osm_upstream>>

\* lat, lon, address = get_location_coordinates(location_input), through its
\* cache, and the test "if lat and lon"
Geocode ==
    /\ pc = "geocode"
    /\ \E nominatim \in NominatimOutcomes :
          LET key == widgets.location_input
              hit == key \in DOMAIN geo_cache
              out == get_location_coordinates(key, nominatim)
              result == IF hit THEN geo_cache[key] ELSE out.value
              shown == IF ~hit /\ out.st_error THEN {"Location error"} ELSE {}
          IN /\ geo_cache' = IF hit THEN geo_cache ELSE (key :> result) @@ geo_cache
             /\ location' = result
             /\ calls' = Append(calls, "get_location_coordinates")
             /\ IF LatAndLon(result)
                THEN /\ ui' = ui \cup shown \cup {"Searching near"}
                     /\ pc' = "find"
                ELSE /\ ui' = ui \cup shown \cup {"Location not found"}
                     /\ pc' = "idle"
    /\ UNCHANGED <<call, ret, runs, widgets, sia, session_state, osm_cache, sentiment_cache,
                   resorts, idx, resort_data, weather_seen, weather_call, osm_upstream>>

\* resorts = find_ski_resorts_osm(lat, lon, radius), through its cache, and the
\* test "if not resorts"
FindResorts ==
    /\ pc = "find"
    /\ \E overpass \in SearchOverpassOutcomes :
          LET key == <<location.lat, location.lon, widgets.radius>>
              hit == key \in DOMAIN osm_cache
              out == find_ski_resorts_osm(location.lat, location.lon, widgets.radius,
                                          overpass, session_state)
              result == IF hit THEN osm_cache[key] ELSE out.value
              shown == IF ~hit /\ out.st_error THEN {"OpenStreetMap error"} ELSE {}
          IN /\ osm_cache' = IF hit THEN osm_cache ELSE (key :> result) @@ osm_cache
             /\ osm_upstream' = IF hit THEN osm_upstream ELSE (key :> overpass) @@ osm_upstream
             /\ resorts' = result
             /\ calls' = Append(calls, "find_ski_resorts_osm")
             /\ IF result = <<>>
                THEN /\ ui' = ui \cup shown \cup {"No resorts found"}
                     /\ pc' = "idle"
                ELSE /\ ui' = ui \cup shown \cup {"Found"}
                     /\ pc' = "enrich"
    /\ idx' = 0
    /\ resort_data' = <<>>
    /\ UNCHANGED <<call, ret, runs, widgets, sia, session_state, geo_cache, sentiment_cache,
                   location, weather_seen, weather_call>>

\* One pass of "for idx, resort in enumerate(resorts)": the booking links, the
\* sentiment (through its cache), the weather (never cached: every call asks
\* the weather service) and the row.
EnrichStep ==
    /\ pc = "enrich"
    /\ idx < Len(resorts)
    /\ \E nws \in SearchNwsOutcomes :
          LET resort == resorts[idx + 1]
              booking == generate_booking_urls(resort.name, resort.website,
                                               widgets.date_from, widgets.date_to,
                                               widgets.need_lesson, widgets.need_rental)
              sentiment_hit == resort.name \in DOMAIN sentiment_cache
              sentiment_result == IF sentiment_hit THEN sentiment_cache[resort.name]
                                  ELSE get_reddit_sentiment(resort.name, sia)
              weather == get_weather_forecast(resort.lat, resort.lon, nws)
              place == <<resort.lat, resort.lon>>
              row == ResortRow(resort, booking, sentiment_result, weather.value,
                               widgets.need_lesson, widgets.need_rental)
          IN /\ sentiment_cache' = IF sentiment_hit THEN sentiment_cache
                                   ELSE (resort.name :> sentiment_result) @@ sentiment_cache
             /\ calls' = calls \o <<"generate_booking_urls", "get_reddit_sentiment",
                                    "get_weather_forecast">>
             /\ weather_call' = [fn |-> "get_weather_forecast", lat |-> resort.lat,
                                 lon |-> resort.lon, requests |-> weather.requests,
                                 raised |-> weather.raised, value |-> weather.value,
                                 earlier |-> IF place \in DOMAIN weather_seen
                                             THEN <<weather_seen[place]>> ELSE <<>>]
             /\ IF weather.raised
                THEN \* the exception ends the script run
                     /\ ui' = ui \cup {"exception"}
                     /\ pc' = "idle"
                     /\ UNCHANGED <<idx, resort_data, weather_seen>>
                ELSE /\ weather_seen' = IF place \in DOMAIN weather_seen THEN weather_seen
                                        ELSE (place :> weather.value) @@ weather_seen
                     /\ resort_data' = AppendRow(resort_data, row)
                     /\ idx' = idx + 1
                     /\ ui' = ui
                     /\ pc' = IF idx + 1 = Len(resorts) THEN "render" ELSE "enrich"
    /\ UNCHANGED <<call, ret, runs, widgets, sia, session_state, geo_cache, osm_cache,
                   location, resorts, osm_upstream>>

\* after the loop: the cards, the table and the download button
Render ==
    /\ pc = "render"
    /\ ui' = ui \cup {"results"}
    /\ pc' = "idle"
    /\ UNCHANGED <<call, ret, runs, widgets, sia, session_state, geo_cache, osm_cache,
                   sentiment_cache, location, resorts, idx, resort_data, calls,
                   weather_seen, weather_call, osm_upstream>>

Next ==
    \/ \E w \in WidgetInputs : Rerun(w)
    \/ Geocode
    \/ FindResorts
    \/ EnrichStep
    \/ Render

Spec == Init /\ [][Next]_vars


\* ------------------------------------------- the Lake Tahoe search, from a
\* ------------------------------------------- freshly loaded page

\* "Lake Tahoe, CA", 20 miles, 8 to 9 November (2 days), rentals, no lessons,
\* the button pressed
TahoeWidgets ==
    [location_input |-> <<"L","a","k","e"," ","T","a","h","o","e",","," ","C","A">>, radius |-> 2000, date_from |-> 8, date_to |-> 9,
     need_lesson |-> FALSE, need_rental |-> TRUE, search_button |-> TRUE]

\* the first interaction with the page is that search
SearchTahoe == runs = 0 /\ Rerun(TahoeWidgets)

NextTahoe ==
    \/ SearchTahoe
    \/ Geocode
    \/ FindResorts
    \/ EnrichStep
    \/ Render

SpecTahoe == Init /\ [][NextTahoe]_vars

\* ================================================================ properties

\* ---- what a find_ski_resorts_osm call was given and returned

IsPoi == call.fn = "find_ski_resorts_osm"

PoiReturned == ret.fn = "find_ski_resorts_osm"

\* the elements of the response, when the server answered 200 with a JSON body
PoiElements ==
    IF IsPoi /\ ~call.overpass.raises /\ call.overpass.status_code = 200
          /\ call.overpass.json.ok
    THEN Get(call.overpass.json.data, "elements", <<>>)
    ELSE <<>>

ElemName(e) == Get(Get(e, "tags", EmptyDict), "name", <<>>)

HasCoords(e) ==
    \/ "lat" \in DOMAIN e /\ "lon" \in DOMAIN e
    \/ "center" \in DOMAIN e /\ "lat" \in DOMAIN e["center"] /\ "lon" \in DOMAIN e["center"]

ElemLat(e) == IF "lat" \in DOMAIN e /\ "lon" \in DOMAIN e THEN e["lat"] ELSE e["center"]["lat"]

ElemLon(e) == IF "lat" \in DOMAIN e /\ "lon" \in DOMAIN e THEN e["lon"] ELSE e["center"]["lon"]

\* a feature that passes every filter of the loop but the one on seen names
Qualifies(e) ==
    LET tags == Get(e, "tags", EmptyDict)
    IN /\ ElemName(e) # <<>>
       /\ \A i \in 1..Len(exclude_keywords) : ~In(exclude_keywords[i], Lower(ElemName(e)))
       /\ ~("amenity" \in DOMAIN tags /\ tags["amenity"] \in {"ski_school", "ski_rental"}
            /\ "leisure" \notin DOMAIN tags)
       /\ HasCoords(e)
       /\ Geodesic(call.lat, call.lon, ElemLat(e), ElemLon(e)) <= call.radius_miles

\* resort record r was built from feature e
IsRecordOf(r, e) ==
    /\ HasCoords(e)
    /\ r.source = "OpenStreetMap"
    /\ r.name = ElemName(e)
    /\ r.lat = ElemLat(e)
    /\ r.lon = ElemLon(e)

\* C1 (the claim): every resort record find_ski_resorts_osm returns, from the
\* live index or from the fallback table, has a recorded distance that is
\* non-negative and at most the requested radius.
C1_DistanceWithinRadius ==
    PoiReturned =>
        \A k \in 1..Len(ret.out.value) :
            /\ ret.out.value[k].distance >= 0
            /\ ret.out.value[k].distance * 10 <= call.radius_miles

\* C2 (the claim as stated): of two features of the response that share a name,
\* only the first in response order can be the one returned.
C2_FirstEncounteredWins ==
    PoiReturned =>
        \A i, j \in 1..Len(PoiElements) :
            (i < j /\ ElemName(PoiElements[i]) # <<>>
                   /\ ElemName(PoiElements[i]) = ElemName(PoiElements[j]))
            => \A k \in 1..Len(ret.out.value) :
                   (ret.out.value[k].source = "OpenStreetMap"
                       /\ ret.out.value[k].name = ElemName(PoiElements[i]))
                   => IsRecordOf(ret.out.value[k], PoiElements[i])

\* a feature whose coordinates cannot be read: a center without lat or lon
Malformed(e) ==
    /\ ~("lat" \in DOMAIN e /\ "lon" \in DOMAIN e)
    /\ "center" \in DOMAIN e
    /\ ~("lat" \in DOMAIN e["center"] /\ "lon" \in DOMAIN e["center"])

\* j is the first feature of its name that passes the filters
FirstQualifying(j) ==
    /\ Qualifies(PoiElements[j])
    /\ \A i \in 1..(j - 1) :
           ElemName(PoiElements[i]) = ElemName(PoiElements[j]) => ~Qualifies(PoiElements[i])

\* C2 (amended): of the features that share a name, the one returned is the
\* first that passes the filters (named, no excluded keyword, not a bare ski
\* school or rental, with coordinates, within the radius); an earlier feature
\* of that name that fails a filter does not claim the name, and no name is
\* returned twice.
C2_FirstQualifyingWins ==
    PoiReturned =>
        LET value == ret.out.value
            live == {k \in 1..Len(value) : value[k].source = "OpenStreetMap"}
        IN /\ \A k \in live :
                  \E j \in 1..Len(PoiElements) :
                      FirstQualifying(j) /\ IsRecordOf(value[k], PoiElements[j])
           /\ \A k1, k2 \in live : value[k1].name = value[k2].name => k1 = k2
           /\ (\A j \in 1..Len(PoiElements) : ~Malformed(PoiElements[j])) =>
                  \A j \in 1..Len(PoiElements) :
                      FirstQualifying(j) =>
                          \E k \in live : IsRecordOf(value[k], PoiElements[j])

\* C2 witness: a later feature is returned after an earlier one of the same
\* name failed a filter
C2_Witness ==
    /\ PoiReturned
    /\ \E i, j \in 1..Len(PoiElements) :
           /\ i < j
           /\ ElemName(PoiElements[i]) = ElemName(PoiElements[j])
           /\ ~Qualifies(PoiElements[i])
           /\ Qualifies(PoiElements[j])
           /\ ~IsRecordOf(ret.out.value[1], PoiElements[i])
           /\ IsRecordOf(ret.out.value[1], PoiElements[j])

\* the upstream failed, or gave no feature that passes the filters
PoiFailure ==
    \/ call.overpass.raises
    \/ call.overpass.status_code # 200
    \/ ~call.overpass.json.ok
    \/ \A j \in 1..Len(PoiElements) : ~Qualifies(PoiElements[j])

\* the location text names the fallback region
TahoeTyped ==
    \E i \in 0..(Len(call.session_state["location_input"]) - 5) :
        Lower(SubSeq(call.session_state["location_input"], i + 1, i + 5))
            = <<"t","a","h","o","e">>

\* the entries of the static table within the radius of the origin
TableWithin ==
    {i \in 1..Len(known_resorts) :
        Geodesic(call.lat, call.lon, known_resorts[i].lat, known_resorts[i].lon)
            <= call.radius_miles}

\* C8: when the Overpass call raises, answers a non-success status or yields no
\* qualifying resort, find_ski_resorts_osm does not raise; for a location text
\* containing "tahoe" it returns exactly the entries of the static table within
\* the radius, sorted by distance and tagged as fallback, and for any other
\* location it returns the empty list.
C8_FailurePolicy ==
    (PoiReturned /\ PoiFailure) =>
        LET value == ret.out.value
        IN /\ ~ret.out.raised
           /\ ~TahoeTyped => value = <<>>
           /\ TahoeTyped =>
                 /\ Len(value) = Cardinality(TableWithin)
                 /\ \A i \in TableWithin :
                        \E k \in 1..Len(value) :
                            /\ value[k].name = known_resorts[i].name
                            /\ value[k].lat = known_resorts[i].lat
                            /\ value[k].lon = known_resorts[i].lon
                            /\ value[k].website = known_resorts[i].website
                            /\ value[k].distance =
                                   Round1(Geodesic(call.lat, call.lon,
                                                   known_resorts[i].lat, known_resorts[i].lon))
                 /\ \A k \in 1..Len(value) : value[k].source = "Fallback Database"
                 /\ \A k \in 1..(Len(value) - 1) : value[k].distance <= value[k + 1].distance

\* C8 witness: the server failed on a Tahoe search and several table entries
\* came back
C8_Witness ==
    /\ PoiReturned
    /\ call.overpass.raises
    /\ TahoeTyped
    /\ Len(ret.out.value) >= 2
    /\ ret.out.value[1].source = "Fallback Database"

\* ---- what a generate_booking_urls call was given and returned

BookingReturned == ret.fn = "generate_booking_urls"

\* the resort name lowercased, with its spaces and hyphens removed
NormalizedName == [i \in 1..Len(call.resort_name) |-> LowerChar(call.resort_name[i])]

SlugOfCall == SelectSeq(NormalizedName, LAMBDA c : c # " " /\ c # "-")

\* the entries of the lift-ticket table whose key occurs in the slug
LiftMatches ==
    LET table == known_patterns(Strftime(call.date_from), Strftime(call.date_to))
    IN {i \in 1..Len(table) : In(table[i].key, SlugOfCall)}

\* C3: when the normalized resort name contains a key of the lift-ticket
\* table, the lift-ticket link is the template of the first such key in table
\* order, whether or not a website is given; when no key matches, it is the
\* website-based URL if a website is given and the generic search URL if not.
C3_LiftTicketTier ==
    BookingReturned =>
        LET table == known_patterns(Strftime(call.date_from), Strftime(call.date_to))
            link == ret.out.lift_ticket_link
        IN /\ LiftMatches # {} =>
                  link = table[CHOOSE i \in LiftMatches : \A j \in LiftMatches : i <= j].url
           /\ (LiftMatches = {} /\ call.resort_website # <<>>) =>
                  /\ link[1] = call.resort_website[1]
                  /\ link[2] = "/plan-your-trip/lift-access/tickets?startDate="
                  /\ Len(link) = 5
           /\ (LiftMatches = {} /\ call.resort_website = <<>>) =>
                  link[1] = "https://www.google.com/search?q="

\* C3 witness: a name holding two keys with different templates, called with a
\* website, got the template of the key that comes first in the table
C3_Witness ==
    /\ BookingReturned
    /\ Cardinality(LiftMatches) = 2
    /\ call.resort_website # <<>>
    /\ ret.out.lift_ticket_link[1] = "https://www.alta.com/tickets?date="

\* C4: for a date range of trip_days = (end - start) + 1 >= 1 days the
\* estimated total is (150 + 50 if rental) * trip_days + (200 if lesson).
C4_EstimatedTotal ==
    (BookingReturned /\ (call.date_to - call.date_from) + 1 >= 1) =>
        LET trip_days == (call.date_to - call.date_from) + 1
            total == (150 + (IF call.need_rental THEN 50 ELSE 0)) * trip_days
                         + (IF call.need_lesson THEN 200 ELSE 0)
        IN /\ ret.out.trip_days = trip_days
           /\ ret.out.estimated_total = "~$" \o ToString(total)
           /\ (trip_days = 1 /\ ~call.need_rental /\ ~call.need_lesson)
                  => ret.out.estimated_total = "~$150"

\* C4 witness: a trip of several days with a lesson and rentals
C4_Witness ==
    /\ BookingReturned
    /\ call.date_to - call.date_from = 2
    /\ call.need_lesson
    /\ call.need_rental
    /\ ret.out.estimated_total = "~$800"

\* ---- what a get_reddit_sentiment call was given and returned

SentimentReturned == ret.fn = "get_reddit_sentiment"

\* the lower-cased name holds a key of the reputation table or a generic token
NameHasReputation ==
    LET lower == [i \in 1..Len(call.resort_name) |-> LowerChar(call.resort_name[i])]
    IN \/ \E i \in 1..Len(reputation_map) : In(reputation_map[i].key, lower)
       \/ \E word \in { <<"r","e","s","o","r","t">>, <<"m","o","u","n","t","a","i","n">>, <<"s","k","i"," ","a","r","e","a">>, <<"t","a","h","o","e">>, <<"a","l","p","i","n","e">>,
                        <<"p","e","a","k">>, <<"v","a","l","l","e","y">> } : In(word, lower)

\* C5 (the claim as stated): get_reddit_sentiment, which is never given any
\* post, returns the neutral default (0.0, 50, 0) for every resort name.
C5_NeutralWithoutPosts ==
    SentimentReturned => (ret.out[1] = 0 /\ ret.out[2] = 50 /\ ret.out[3] = 0)

\* C5 (amended): get_reddit_sentiment reads no posts and always reports a
\* sample count of 0; it returns the neutral score 0.0 with 50 percent exactly
\* when the analyzer is unavailable or the lower-cased name holds no key of the
\* reputation table and no generic token; any other name gets a positive score
\* and more than 50 percent.
C5_NeutralOnlyWithoutReputation ==
    SentimentReturned =>
        /\ ret.out[3] = 0
        /\ (~call.sia \/ ~NameHasReputation) => (ret.out[1] = 0 /\ ret.out[2] = 50)
        /\ (call.sia /\ NameHasReputation) => (ret.out[1] > 0 /\ ret.out[2] > 50)

\* C5 witness: a name without reputation scored neutral with the analyzer
\* available
C5_Witness ==
    /\ SentimentReturned
    /\ call.sia
    /\ ~NameHasReputation
    /\ ret.out[1] = 0
    /\ ret.out[2] = 50
    /\ ret.out[3] = 0

\* ---- what a get_weather_forecast call was given and returned

WeatherReturned == ret.fn = "get_weather_forecast"

\* the point request was answered with a body that names a forecast endpoint
PointSucceeded ==
    /\ call.nws.point.kind = "json"
    /\ "properties" \in DOMAIN call.nws.point.json
    /\ "forecast" \in DOMAIN call.nws.point.json["properties"]

\* the forecast request was answered with a body whose first period has a
\* temperature and a short forecast
ForecastSucceeded ==
    /\ call.nws.forecast.kind = "json"
    /\ "properties" \in DOMAIN call.nws.forecast.json
    /\ "periods" \in DOMAIN call.nws.forecast.json["properties"]
    /\ call.nws.forecast.json["properties"]["periods"] # <<>>
    /\ "temperature" \in DOMAIN call.nws.forecast.json["properties"]["periods"][1]
    /\ "shortForecast" \in DOMAIN call.nws.forecast.json["properties"]["periods"][1]

\* C6: get_weather_forecast never raises; when the point call or the forecast
\* call fails, a response lacks the expected fields or the forecast has no
\* period, it returns "Weather unavailable"; the forecast request is issued
\* only after the point call has succeeded, and a temperature string is
\* returned only when both calls succeeded.
C6_WeatherNeverRaises ==
    WeatherReturned =>
        LET reqs == ret.out.requests
        IN /\ ~ret.out.raised
           /\ ~(PointSucceeded /\ ForecastSucceeded) => ret.out.value = "Weather unavailable"
           /\ (PointSucceeded /\ ForecastSucceeded) => ret.out.value # "Weather unavailable"
           /\ reqs[1] = [url |-> "https://api.weather.gov/points/",
                         lat |-> call.lat, lon |-> call.lon]
           /\ Len(reqs) = (IF PointSucceeded THEN 2 ELSE 1)
           /\ PointSucceeded => reqs[2] = [url |-> call.nws.point.json["properties"]["forecast"]]

\* C6 witness: the point call succeeded, the forecast call raised, and the
\* marker came back
C6_Witness ==
    /\ WeatherReturned
    /\ PointSucceeded
    /\ call.nws.forecast.kind = "raise"
    /\ Len(ret.out.requests) = 2
    /\ ~ret.out.raised
    /\ ret.out.value = "Weather unavailable"


\* ---- the script run

\* the row the loop builds for the i-th resort when its weather lookup returns weather
RowOf(i, weather) ==
    ResortRow(resorts[i],
              generate_booking_urls(resorts[i].name, resorts[i].website, widgets.date_from,
                                    widgets.date_to, widgets.need_lesson, widgets.need_rental),
              get_reddit_sentiment(resorts[i].name, sia),
              weather, widgets.need_lesson, widgets.need_rental)

\* C7: when the end date is before the start date the sidebar shows the error
\* and the run calls no pipeline function, even with the button pressed: it
\* ends on the welcome screen with no row; and every row's booking links are
\* for a trip of at least one day.
C7_InvalidDatesNoPipeline ==
    /\ TripDays(widgets) < 1 =>
          /\ "End date must be after start date!" \in ui
          /\ calls = <<>>
          /\ pc = "idle"
          /\ "welcome" \in ui
          /\ location = NoLocation /\ resorts = <<>> /\ resort_data = <<>>
    /\ \A i \in 1..Len(resort_data) : resort_data[i].booking_obj.trip_days >= 1

\* the button is pressed with the end date before the start date
C7_Witness ==
    /\ widgets.search_button
    /\ TripDays(widgets) < 1
    /\ runs > 0
    /\ "End date must be after start date!" \in ui

\* the rows so far are those of the first idx resorts, in order, each with a
\* weather string
RowsInStep ==
    /\ idx = Len(resort_data)
    /\ idx <= Len(resorts)
    /\ \A i \in 1..Len(resort_data) :
          /\ resort_data[i].Resort = resorts[i].name
          /\ resort_data[i].resort_obj = resorts[i]
          /\ resort_data[i].Weather \in {"Weather unavailable", "28 F - Snow Showers"}

\* C9: the enrichment loop handles the resorts one by one whatever the weather
\* service does: while it runs, the rows are those of the resorts handled so
\* far, in order, and a next resort is left to handle; it ends with exactly one
\* row per resort, and a run that found resorts never ends without rendering
\* them; a step moves on to the next resort, leaves the earlier rows as they
\* were and appends one row, which is complete but for what its own weather
\* lookup returned: a failed lookup only puts "Weather unavailable" in its own
\* row; rendering changes no row.
C9_EnrichmentIndependent ==
    /\ [](/\ pc \in {"enrich", "render"} \/ "results" \in ui => RowsInStep
          /\ pc = "enrich" => idx < Len(resorts)
          /\ pc = "render" \/ "results" \in ui =>
                resorts # <<>> /\ Len(resort_data) = Len(resorts)
          /\ pc = "idle" /\ "Found" \in ui => "results" \in ui)
    /\ [][/\ pc = "enrich" =>
               /\ idx' = idx + 1
               /\ Len(resort_data') = Len(resort_data) + 1
               /\ SubSeq(resort_data', 1, Len(resort_data)) = resort_data
               /\ resort_data'[idx + 1] = RowOf(idx + 1, resort_data'[idx + 1].Weather)
               /\ resorts' = resorts
          /\ pc = "render" => resort_data' = resort_data /\ resorts' = resorts]_vars

\* two resorts were found; the first one's weather lookup failed, the second
\* one's did not, and both have their row
C9_Witness ==
    /\ "results" \in ui
    /\ Len(resorts) = 2
    /\ Len(resort_data) = 2
    /\ resort_data[1].Weather = "Weather unavailable"
    /\ resort_data[2].Weather = "28 F - Snow Showers"
    /\ weather_call.requests # <<>>

\* C10: a weather lookup for coordinates that were looked up before issues no
\* request to the weather service and returns what the first lookup returned.
C10_WeatherMemoized ==
    weather_call.fn = "get_weather_forecast" /\ weather_call.earlier # <<>> =>
        /\ weather_call.requests = <<>>
        /\ weather_call.value = weather_call.earlier[1]


\* ---- the Lake Tahoe search

\* the geocoder resolved the location to Lake Tahoe
ResolvedToTahoe ==
    ~location.none /\ location.lat = Origin.lat /\ location.lon = Origin.lon

\* C11: in the Lake Tahoe search (20 miles, 2 days, rentals, no lessons), once
\* the geocoder has resolved the location to Lake Tahoe the resort list is never
\* empty, whatever the Overpass server does, and the run ends with the results
\* rendered; every row has a weather string, a sentiment score, a lift-ticket
\* link, a rental link, no lesson link, and the estimated total (150+50)*2 = 400.
C11_TahoeScenario ==
    /\ ResolvedToTahoe /\ pc \in {"enrich", "render", "idle"} =>
          /\ resorts # <<>>
          /\ "No resorts found" \notin ui
          /\ pc = "idle" => "results" \in ui /\ Len(resort_data) = Len(resorts)
    /\ \A i \in 1..Len(resort_data) :
          LET row == resort_data[i]
          IN /\ row.Weather # ""
             /\ Len(row.Reddit_Vibe) >= 2 /\ row.Reddit_Vibe[2] # ""
             /\ row.Lift_Tickets # <<>>
             /\ row.Rentals # <<>>
             /\ row.Lessons = <<>>
             /\ row.booking_obj.lesson_link = <<>>
             /\ row.Est_Total = "~$400"
             /\ row.booking_obj.estimated_total = "~$400"

\* the Overpass request failed, the five table resorts within 20 miles were
\* listed and rendered, one of them without a forecast
C11_Witness ==
    /\ widgets = TahoeWidgets
    /\ "OpenStreetMap error" \in ui
    /\ "results" \in ui
    /\ Len(resort_data) = 5
    /\ resort_data[1].Weather = "Weather unavailable"
    /\ resort_data[1].Est_Total = "~$400"


\* a link is empty when the text its pieces make up is ""
EmptyLink(link) == \A i \in 1..Len(link) : link[i] = ""

\* C12: whatever generate_booking_urls is given, its lesson link is non-empty
\* exactly when need_lesson is true, its rental link is non-empty exactly when
\* need_rental is true, and its lift-ticket link and its package-search link
\* are never empty.
C12_LinksIffRequested ==
    BookingReturned =>
        /\ ~EmptyLink(ret.out.lesson_link) <=> call.need_lesson
        /\ ~EmptyLink(ret.out.rental_link) <=> call.need_rental
        /\ ~EmptyLink(ret.out.lift_ticket_link)
        /\ ~EmptyLink(ret.out.full_package_link)

\* a resort of no table and without a website, lessons asked for and rentals
\* not: the lesson link is the search link and there is no rental link
C12_Witness ==
    /\ BookingReturned
    /\ call.need_lesson /\ ~call.need_rental
    /\ call.resort_website = <<>>
    /\ call.resort_name = <<"D","i","a","m","o","n","d"," ","P","e","a","k">>
    /\ ret.out.lesson_link[1] = "https://www.google.com/search?q="
    /\ ret.out.rental_link = <<>>


\* ---- the lists find_ski_resorts_osm returns

\* C13: in every list find_ski_resorts_osm returns, built from the Overpass
\* response or from the static table, no two records have the same name and no
\* record has an empty name.
C13_NamesUnique ==
    PoiReturned =>
        LET list == ret.out.value
        IN /\ \A i \in 1..Len(list) : list[i].name # <<>>
           /\ \A i, j \in 1..Len(list) : i # j => list[i].name # list[j].name

\* the response held two features of one name, both passing every filter: the
\* list holds the name once
C13_Witness ==
    /\ PoiReturned
    /\ Len(PoiElements) = 2
    /\ ElemName(PoiElements[1]) = ElemName(PoiElements[2])
    /\ Qualifies(PoiElements[1])
    /\ Qualifies(PoiElements[2])
    /\ Len(ret.out.value) = 1
    /\ ret.out.value[1].source = "OpenStreetMap"

\* C14: every list find_ski_resorts_osm returns, built from the Overpass
\* response or from the static table, is in ascending order of the recorded
\* distance.
C14_SortedByDistance ==
    PoiReturned =>
        LET list == ret.out.value
        IN \A i, j \in 1..Len(list) : i < j => list[i].distance <= list[j].distance

\* the response listed a farther resort before a nearer one; the list has the
\* nearer one first
C14_Witness ==
    /\ PoiReturned
    /\ Len(PoiElements) = 2
    /\ Len(ret.out.value) = 2
    /\ IsRecordOf(ret.out.value[2], PoiElements[1])
    /\ IsRecordOf(ret.out.value[1], PoiElements[2])
    /\ ret.out.value[1].distance < ret.out.value[2].distance


\* ---- the order of the pipeline

\* this run has called the geocoder
Geocoded == Len(calls) >= 1

\* this run has called, or is about to call, find_ski_resorts_osm
FinderInvoked ==
    pc = "find" \/ \E i \in 1..Len(calls) : calls[i] = "find_ski_resorts_osm"

\* this run has entered the enrichment loop
Enriching ==
    pc \in {"enrich", "render"} \/ \E i \in 1..Len(calls) : calls[i] = "generate_booking_urls"

\* C15: once a search run has called the geocoder, find_ski_resorts_osm is
\* invoked exactly when the geocoder returned a location (a latitude and a
\* longitude, whatever their values); "Location not found" is shown only when
\* the geocoder returned none; and the enrichment loop runs only after
\* find_ski_resorts_osm returned a non-empty list.
C15_PipelineOrdering ==
    /\ Geocoded => (FinderInvoked <=> ~location.none)
    /\ "Location not found" \in ui => Geocoded /\ location.none
    /\ Enriching =>
          /\ Len(calls) >= 2
          /\ calls[1] = "get_location_coordinates"
          /\ calls[2] = "find_ski_resorts_osm"
          /\ resorts # <<>>


\* ---- the cache of find_ski_resorts_osm

\* this run has called find_ski_resorts_osm
FinderCalled == \E i \in 1..Len(calls) : calls[i] = "find_ski_resorts_osm"

\* C16: the list a search gets from find_ski_resorts_osm, computed or taken
\* from the cache, is the list the function computes for this search's
\* (lat, lon, radius) and location text when the Overpass server does what it
\* did when the list was computed: neither the text typed then nor the searches
\* made before change it.
C16_ResultDeterminedByKey ==
    FinderCalled =>
        LET key == <<location.lat, location.lon, widgets.radius>>
        IN resorts = find_ski_resorts_osm(location.lat, location.lon, widgets.radius,
                                          osm_upstream[key], session_state).value

====
